---------------------------- MODULE Spec2Model ----------------------------
(***************************************************************************)
(* A model of the mvp_mission helm:                                        *)
(*   - helm::StateMachine (mvp_helm/src/helm/sm.cpp): the declared states, *)
(*     the active state, initialize / translate_to / get_state;           *)
(*   - helm::Helm (mvp_helm/src/helm/helm.cpp): start up, the feedback     *)
(*     callback and the tick f_iterate with its per-DOF arbitration;       *)
(*   - helm::DepthTracking (bhv_depth_tracking/.../depth_tracking.cpp):    *)
(*     request_set_point and its pitch limit.                              *)
(*                                                                         *)
(* Five specifications share the variables:                                *)
(*   SpecSM   the StateMachine object driven by an arbitrary client;       *)
(*   SpecArb  Helm::f_iterate on arbitrary behavior containers;            *)
(*   SpecDT   Helm::f_iterate on the DepthTracking behavior;               *)
(*   Spec     the whole helm: start up, tick thread, dispatch thread;      *)
(*   SpecLive the whole helm on one mission, with fair scheduling.         *)
(***************************************************************************)
EXTENDS Integers, Sequences, FiniteSets, TLC

VARIABLES
    pc,                 \* position of the main thread / of the client
    m_states,           \* StateMachine::m_states (declaration order)
    m_active_state,     \* StateMachine::m_active_state (a copy)
    sm_call,            \* the StateMachine call that has just returned
    mission,            \* the mission file: declared states and behaviors
    m_behavior_containers,          \* Helm::m_behavior_containers
    m_controller_modes,             \* Helm::m_controller_modes.modes
    m_controller_process_values,    \* Helm::m_controller_process_values
    controller_up,      \* the low level controller's service exists
    tick_pc,            \* the helm_loop thread: "off", "sleep" or "loop"
    tick_outcome,       \* how the last call of f_iterate went
    active_state,       \* f_iterate's local copy of the active state
    dofs,               \* f_iterate's local dofs (of the active mode)
    idx,                \* containers f_iterate has gone through
    dof_ctrl,           \* f_iterate's local dof_ctrl
    dof_priority,       \* f_iterate's local dof_priority
    proposals,          \* what each behavior returned in this call
    published,          \* the message f_iterate published, if any
    calls,              \* the calls f_iterate made on the behaviors, in order
    dispatch,           \* the assignment the dispatch thread is in, if any
    m_process_values,   \* DepthTracking: BehaviorBase::m_process_values
    m_requested_depth,  \* DepthTracking::m_requested_depth
    m_max_pitch,        \* DepthTracking::m_max_pitch
    m_fwd_distance      \* DepthTracking::m_fwd_distance

smVars == <<pc, m_states, m_active_state, sm_call>>

confVars == <<mission, m_behavior_containers, m_controller_modes, controller_up>>

tickVars ==
    <<tick_pc, tick_outcome, active_state, dofs, idx, dof_ctrl, dof_priority,
      proposals, published, calls>>

dtVars == <<m_process_values, m_requested_depth, m_max_pitch, m_fwd_distance>>

helmVars ==
    <<confVars, m_controller_process_values, tickVars, dispatch, dtVars>>

vars == <<smVars, helmVars>>

-----------------------------------------------------------------------------
(* Bounds and input sets *)

\* longest declared state list
MaxStates == 2

StateNames == {"A", "B"}

\* controller modes a state may name; only "flight" is known to the controller
ModeNames == {"flight", "survey"}

TransitionSets == SUBSET StateNames

\* sm_state_t values a mission can declare
StateChoices ==
    [name : StateNames, mode : ModeNames, initial : BOOLEAN,
     transitions : TransitionSets]

\* a default-constructed sm_state_t: m_active_state before initialize()
DefaultState ==
    [name |-> "", mode |-> "", initial |-> FALSE, transitions |-> {}]

\* what the read of front() of an empty vector may leave in m_active_state
GarbageStates == StateChoices \cup {DefaultState}

NoCall == [op |-> "none"]

\* longest list of behavior containers f_iterate is run on
MaxBehaviors == 2

\* the controllable degrees of freedom modelled (indices of ctrl::DOF)
DOFs == {"PITCH", "Z"}

\* command values
Values == {0, 1, 2}

\* priorities a mission can give a behavior in a state (int)
Priorities == {-1, 0, 1, 2}

\* feedback messages, and the null m_controller_process_values starts as
Feedbacks == {"f1", "f2"}
Null == "null"

\* what a read of the feedback message yields when it races with the
\* assignment that releases it: neither the old nor the new message
TornFeedback == "torn"

\* the dispatch thread is in no assignment
Idle == [op |-> "idle"]

\* a ControlProcess message, on the fields of the modelled DOFs
ControlProcess(pos_z, ori_y, mode) ==
    [position_z |-> pos_z, orientation_y |-> ori_y, control_mode |-> mode]

\* a default-constructed mvp_control::ControlProcess
EmptyControlProcess == ControlProcess(0, 0, "")

NoMsg == [control_mode |-> "none"]

\* std::array<T, N> x{}: every element zero
ZeroArray == [d \in DOFs |-> 0]

\* a behavior container: the DOFs its behavior claims (get_dofs()), and its
\* BehaviorOptions.states, a map from state names to priorities
Container(d, st) == [dofs |-> d, states |-> st]

\* what request_set_point can do: its return value and the set_point written
Outputs ==
    {[ok |-> FALSE, set_point |-> EmptyControlProcess]} \cup
    {[ok |-> TRUE, set_point |-> ControlProcess(z, y, "")] :
        z \in Values, y \in Values}

\* the answer of the low level controller's GetControlModes service
ControllerModes == <<[name |-> "flight", dofs |-> DOFs]>>

-----------------------------------------------------------------------------
(* helm::StateMachine, sm.cpp *)

\* std::find_if over m_states by name: the first index, 0 for end()
FindState(states, state_name) ==
    LET I == {k \in DOMAIN states : states[k].name = state_name}
    IN  IF I = {} THEN 0 ELSE CHOOSE k \in I : \A j \in I : k <= j

\* std::find_if over m_states by the initial flag: the first index, 0 for end()
FindInitial(states) ==
    LET I == {k \in DOMAIN states : states[k].initial}
    IN  IF I = {} THEN 0 ELSE CHOOSE k \in I : \A j \in I : k <= j

\* StateMachine::append_state
append_state(states, state) == Append(states, state)

translate_to_unchecked(states, active, state_name) ==
    LET state_idx == FindState(states, state_name)
    IN  IF state_idx # 0
        THEN [ret |-> TRUE, active |-> states[state_idx]]
        ELSE [ret |-> FALSE, active |-> active]

translate_to_eager(states, active, state_name) ==
    LET state_idx == FindState(states, state_name)
    IN  IF state_idx = 0
        THEN [ret |-> FALSE, active |-> active]
        ELSE [ret |-> state_name \in active.transitions,
              active |-> states[state_idx]]

\* StateMachine::translate_to: the value returned and the active state left
translate_to(states, active, state_name) ==
    LET state_idx == FindState(states, state_name)
    IN  IF state_name \notin active.transitions
        THEN [ret |-> FALSE, active |-> active]
        ELSE IF state_idx # 0
             THEN [ret |-> TRUE, active |-> states[state_idx]]
             ELSE [ret |-> FALSE, active |-> active]

initialize_no_fallback(states) ==
    LET initial_state == FindInitial(states)
    IN  IF initial_state # 0 THEN states[initial_state] ELSE DefaultState

initialize_last_initial(states) ==
    LET I == {k \in DOMAIN states : states[k].initial}
    IN  IF I # {}
        THEN states[CHOOSE k \in I : \A j \in I : j <= k]
        ELSE states[1]

\* StateMachine::initialize on a non-empty m_states: the active state chosen
initialize(states) ==
    LET initial_state == FindInitial(states)
    IN  IF initial_state # 0 THEN states[initial_state] ELSE states[1]

\* StateMachine::get_state: found, and the state copied out
get_state(states, name) ==
    LET state_idx == FindState(states, name)
    IN  IF state_idx # 0
        THEN [ret |-> TRUE, out |-> states[state_idx]]
        ELSE [ret |-> FALSE, out |-> DefaultState]

-----------------------------------------------------------------------------
(* helm::Helm, helm.cpp *)

\* the Helm object after construction, before Helm::initialize
HelmConstructed ==
    /\ m_behavior_containers = <<>>
    /\ m_controller_modes = <<>>
    /\ m_controller_process_values = Null
    /\ controller_up = FALSE
    /\ tick_pc = "off"
    /\ tick_outcome = "none"
    /\ active_state = DefaultState
    /\ dofs = {}
    /\ idx = 0
    /\ dof_ctrl = ZeroArray
    /\ dof_priority = ZeroArray
    /\ proposals = <<>>
    /\ published = NoMsg
    /\ calls = <<>>
    /\ dispatch = Idle

\* std::find_if over m_controller_modes.modes by name: first index, 0 for end()
FindMode(modes, mode_name) ==
    LET I == {k \in DOMAIN modes : modes[k].name = mode_name}
    IN  IF I = {} THEN 0 ELSE CHOOSE k \in I : \A j \in I : k <= j

\* utils::control_process_to_array: the message's fields by DOF index
control_process_to_array(msg) ==
    [d \in DOFs |-> IF d = "PITCH" THEN msg.orientation_y ELSE msg.position_z]

\* utils::array_to_control_process_msg: a message from the array by DOF index
array_to_control_process_msg(arr) ==
    ControlProcess(arr["Z"], arr["PITCH"], "")

\* i->get_opts().states.count(active_state.name)
IsKeyed(container, state_name) == state_name \in DOMAIN container.states

\* i->get_opts().states[active_state.name], for a key that is present
PriorityIn(container, state_name) == container.states[state_name]

\* the per-DOF merge of one behavior's array under its priority
MergeDofs(claimed, priority, bhv_control_array, arrays) ==
    [ctrl |-> [d \in DOFs |->
                  IF d \in claimed /\ priority > arrays.priority[d]
                  THEN bhv_control_array[d] ELSE arrays.ctrl[d]],
     priority |-> [d \in DOFs |->
                  IF d \in claimed /\ priority > arrays.priority[d]
                  THEN priority ELSE arrays.priority[d]]]

Arbitrate_any_state(container, state_name, out, arrays) ==
    LET keys == DOMAIN container.states
        prios == {container.states[k] : k \in keys}
    IN  IF ~out.ok \/ keys = {} \/ container.dofs = {} THEN arrays
        ELSE MergeDofs(container.dofs,
                       CHOOSE p \in prios : \A q \in prios : q <= p,
                       control_process_to_array(out.set_point), arrays)

Arbitrate_failed_as_zero(container, state_name, out, arrays) ==
    IF ~IsKeyed(container, state_name) THEN arrays
    ELSE IF container.dofs = {} THEN arrays
    ELSE MergeDofs(container.dofs, PriorityIn(container, state_name),
                   control_process_to_array(out.set_point), arrays)

\* the body of f_iterate's loop after request_set_point has returned `out`:
\* dof_ctrl and dof_priority as it leaves them
Arbitrate(container, state_name, out, arrays) ==
    IF ~out.ok THEN arrays
    ELSE IF ~IsKeyed(container, state_name) THEN arrays
    ELSE IF container.dofs = {} THEN arrays
    ELSE MergeDofs(container.dofs, PriorityIn(container, state_name),
                   control_process_to_array(out.set_point), arrays)

\* what is kept of a behavior's answer: whether it returned true, and the
\* array of its set_point on the DOFs it claims
Proposal(container, out) ==
    [ok |-> out.ok,
     array |-> [d \in DOFs |->
                  IF out.ok /\ d \in container.dofs
                  THEN control_process_to_array(out.set_point)[d] ELSE 0]]

BehaviorCalls_request_first(k, active_dofs, process_values) ==
    <<[bhv |-> k, call |-> "set_active_dofs", arg |-> active_dofs],
      [bhv |-> k, call |-> "request_set_point", arg |-> "set_point"],
      [bhv |-> k, call |-> "register_process_values", arg |-> process_values]>>

\* the calls f_iterate makes on the behavior of container k in one pass of
\* its loop, in the order it makes them, with what it passes
BehaviorCalls(k, active_dofs, process_values) ==
    <<[bhv |-> k, call |-> "set_active_dofs", arg |-> active_dofs],
      [bhv |-> k, call |-> "register_process_values", arg |-> process_values],
      [bhv |-> k, call |-> "request_set_point", arg |-> "set_point"]>>

(* the two threads share m_controller_process_values and the state machine's
   m_active_state with no lock: a read that overlaps the other thread's
   assignment is a data race, and yields the old value, the new one, or
   parts of both *)

\* sm_state_t values made of members of either of two
Mixes(old, new) ==
    {[name |-> a.name, mode |-> b.mode, initial |-> c.initial,
      transitions |-> d.transitions] : a \in {old, new}, b \in {old, new},
                                       c \in {old, new}, d \in {old, new}}

\* what m_state_machine->get_active_state() can return to the tick
ReadActiveState ==
    IF dispatch.op = "state"
    THEN Mixes(m_active_state, dispatch.state)
    ELSE {m_active_state}

\* what the tick can find in m_controller_process_values
ReadPointer ==
    IF dispatch.op = "feedback"
    THEN {m_controller_process_values, dispatch.msg}
    ELSE {m_controller_process_values}

\* what *m_controller_process_values can give register_process_values
ReadFeedback ==
    IF dispatch.op = "feedback"
    THEN {dispatch.msg} \cup
         (IF m_controller_process_values = Null
          THEN {} ELSE {m_controller_process_values, TornFeedback})
    ELSE {m_controller_process_values}

(* the parser: one callback per declaration of the mission, in declaration
   order, states and behaviors in any order relative to each other *)

Parser_has_state == Len(m_states) < Len(mission.states)

Parser_next_state == mission.states[Len(m_states) + 1]

Parser_has_behavior == Len(m_behavior_containers) < Len(mission.behaviors)

Parser_next_behavior == mission.behaviors[Len(m_behavior_containers) + 1]

(* Helm::initialize *)

\* the parser reads a state declaration: Helm::f_generate_sm_states
Helm_f_generate_sm_states ==
    /\ pc = "parse"
    /\ Parser_has_state
    /\ m_states' = append_state(m_states, Parser_next_state)
    /\ UNCHANGED <<pc, m_active_state, sm_call, helmVars>>

\* the parser reads a behavior declaration: Helm::f_generate_behaviors
Helm_f_generate_behaviors ==
    /\ pc = "parse"
    /\ Parser_has_behavior
    /\ m_behavior_containers' =
          Append(m_behavior_containers, Parser_next_behavior)
    /\ UNCHANGED <<smVars, mission, m_controller_modes, controller_up,
                   m_controller_process_values, tickVars, dispatch, dtVars>>

\* m_parser->initialize() returns; subscribe and advertise
Helm_subscribe ==
    /\ pc = "parse"
    /\ ~Parser_has_state
    /\ ~Parser_has_behavior
    /\ pc' = "sm_init"
    /\ UNCHANGED <<m_states, m_active_state, sm_call, helmVars>>

\* m_state_machine->initialize(); on an empty list m_states.front() is
\* undefined behaviour: the process dies, or goes on with what the read left
Helm_sm_initialize ==
    /\ pc = "sm_init"
    /\ \/ /\ m_states # <<>>
          /\ m_active_state' = initialize(m_states)
          /\ pc' = "bhv_init"
       \/ /\ m_states = <<>>
          /\ \/ /\ pc' = "crashed"
                /\ UNCHANGED m_active_state
             \/ /\ pc' = "bhv_init"
                /\ m_active_state' \in GarbageStates
    /\ UNCHANGED <<m_states, sm_call, helmVars>>

\* Helm::f_initialize_behaviors
Helm_f_initialize_behaviors ==
    /\ pc = "bhv_init"
    /\ pc' = "get_modes"
    /\ UNCHANGED <<m_states, m_active_state, sm_call, helmVars>>

\* the low level controller brings its service up
Controller_up ==
    /\ ~controller_up
    /\ controller_up' = TRUE
    /\ UNCHANGED <<smVars, mission, m_behavior_containers, m_controller_modes,
                   m_controller_process_values, tickVars, dispatch, dtVars>>

\* Helm::f_get_controller_modes: waitForExistence times out, warn and retry
Helm_wait_for_service ==
    /\ pc = "get_modes"
    /\ ~controller_up
    /\ UNCHANGED vars

\* Helm::f_get_controller_modes: the service exists, call it; what
\* client.call returns is not looked at, and the response of a call that
\* failed is the empty one it was constructed with
Helm_f_get_controller_modes ==
    /\ pc = "get_modes"
    /\ controller_up
    /\ \E answered \in BOOLEAN :
          m_controller_modes' = IF answered THEN ControllerModes ELSE <<>>
    /\ pc' = "initialized"
    /\ UNCHANGED <<m_states, m_active_state, sm_call, mission,
                   m_behavior_containers, controller_up,
                   m_controller_process_values, tickVars, dispatch, dtVars>>

\* Helm::run: start the helm_loop thread, then ros::spin()
Helm_run ==
    /\ pc = "initialized"
    /\ pc' = "spin"
    /\ tick_pc' = "sleep"
    /\ UNCHANGED <<m_states, m_active_state, sm_call, confVars,
                   m_controller_process_values, tick_outcome, active_state,
                   dofs, idx, dof_ctrl, dof_priority, proposals, published,
                   calls, dispatch, dtVars>>

(* the dispatch thread, in ros::spin(): one callback at a time *)

\* Helm::f_cb_controller_state: the assignment of the pointer begins
Helm_f_cb_controller_state ==
    /\ pc = "spin"
    /\ dispatch = Idle
    /\ \E msg \in Feedbacks : dispatch' = [op |-> "feedback", msg |-> msg]
    /\ UNCHANGED <<smVars, confVars, m_controller_process_values, tickVars,
                   dtVars>>

\* Helm::f_cb_controller_state: the pointer is assigned, the message it held
\* is released, the callback returns
Helm_f_cb_controller_state_return ==
    /\ dispatch.op = "feedback"
    /\ m_controller_process_values' = dispatch.msg
    /\ dispatch' = Idle
    /\ UNCHANGED <<smVars, confVars, tickVars, dtVars>>

\* a change state request: Helm::f_change_state, StateMachine::translate_to
\* up to its return of false, or to the start of its assignment
Helm_f_change_state ==
    /\ pc = "spin"
    /\ dispatch = Idle
    /\ \E name \in StateNames :
          LET r == translate_to(m_states, m_active_state, name)
          IN  IF r.ret
              THEN dispatch' = [op |-> "state", state |-> r.active]
              ELSE dispatch' = dispatch
    /\ UNCHANGED <<smVars, confVars, m_controller_process_values, tickVars,
                   dtVars>>

\* StateMachine::translate_to: m_active_state is assigned, true is returned
Helm_f_change_state_return ==
    /\ dispatch.op = "state"
    /\ m_active_state' = dispatch.state
    /\ dispatch' = Idle
    /\ UNCHANGED <<pc, m_states, sm_call, confVars,
                   m_controller_process_values, tickVars, dtVars>>

(* the helm_loop thread: Helm::f_helm_loop, Helm::f_iterate *)

Tick_begin_unknown_mode_runs ==
    /\ tick_pc = "sleep"
    /\ published' = NoMsg
    /\ \E ptr \in ReadPointer : \E state \in ReadActiveState :
          IF ptr = Null
          THEN /\ tick_outcome' = "no_feedback"
               /\ UNCHANGED <<tick_pc, active_state, dofs>>
          ELSE LET active_mode == FindMode(m_controller_modes, state.mode)
               IN  /\ tick_outcome' = "running"
                   /\ tick_pc' = "loop"
                   /\ active_state' = state
                   /\ dofs' = IF active_mode = 0 THEN {}
                              ELSE m_controller_modes[active_mode].dofs
    /\ UNCHANGED <<smVars, confVars, m_controller_process_values, idx,
                   dof_ctrl, dof_priority, proposals, calls, dispatch, dtVars>>

Tick_begin_skip_ends_loop ==
    /\ tick_pc = "sleep"
    /\ published' = NoMsg
    /\ \E ptr \in ReadPointer : \E state \in ReadActiveState :
          IF ptr = Null
          THEN /\ tick_outcome' = "no_feedback"
               /\ tick_pc' = "ended"
               /\ UNCHANGED <<active_state, dofs>>
          ELSE LET active_mode == FindMode(m_controller_modes, state.mode)
               IN  IF active_mode = 0
                   THEN /\ tick_outcome' = "no_mode"
                        /\ tick_pc' = "ended"
                        /\ UNCHANGED <<active_state, dofs>>
                   ELSE /\ tick_outcome' = "running"
                        /\ tick_pc' = "loop"
                        /\ active_state' = state
                        /\ dofs' = m_controller_modes[active_mode].dofs
    /\ UNCHANGED <<smVars, confVars, m_controller_process_values, idx,
                   dof_ctrl, dof_priority, proposals, calls, dispatch, dtVars>>

\* f_iterate up to its loop: the two early returns, or the locals set up
Tick_begin ==
    /\ tick_pc = "sleep"
    /\ published' = NoMsg
    /\ \E ptr \in ReadPointer : \E state \in ReadActiveState :
          IF ptr = Null
          THEN /\ tick_outcome' = "no_feedback"
               /\ UNCHANGED <<tick_pc, active_state, dofs>>
          ELSE LET active_mode == FindMode(m_controller_modes, state.mode)
               IN  IF active_mode = 0
                   THEN /\ tick_outcome' = "no_mode"
                        /\ UNCHANGED <<tick_pc, active_state, dofs>>
                   ELSE /\ tick_outcome' = "running"
                        /\ tick_pc' = "loop"
                        /\ active_state' = state
                        /\ dofs' = m_controller_modes[active_mode].dofs
    /\ UNCHANGED <<smVars, confVars, m_controller_process_values, idx,
                   dof_ctrl, dof_priority, proposals, calls, dispatch, dtVars>>

\* one pass of f_iterate's loop over m_behavior_containers
Tick_behavior ==
    /\ tick_pc = "loop"
    /\ idx < Len(m_behavior_containers)
    /\ \E out \in Outputs :
          LET i == m_behavior_containers[idx + 1]
              a == Arbitrate(i, active_state.name, out,
                             [ctrl |-> dof_ctrl, priority |-> dof_priority])
          IN  /\ dof_ctrl' = a.ctrl
              /\ dof_priority' = a.priority
              /\ proposals' = Append(proposals, Proposal(i, out))
    /\ \E process_values \in ReadFeedback :
          calls' = calls \o BehaviorCalls(idx + 1, dofs, process_values)
    /\ idx' = idx + 1
    /\ UNCHANGED <<smVars, confVars, m_controller_process_values, tick_pc,
                   tick_outcome, active_state, dofs, published, dispatch,
                   dtVars>>

Tick_publish_rereads_state ==
    /\ tick_pc = "loop"
    /\ idx = Len(m_behavior_containers)
    /\ published' =
          [array_to_control_process_msg(dof_ctrl)
              EXCEPT !.control_mode = m_active_state.mode]
    /\ tick_outcome' = "published"
    /\ tick_pc' = "sleep"
    /\ active_state' = DefaultState
    /\ dofs' = {}
    /\ idx' = 0
    /\ dof_ctrl' = ZeroArray
    /\ dof_priority' = ZeroArray
    /\ proposals' = <<>>
    /\ calls' = <<>>
    /\ UNCHANGED <<smVars, confVars, m_controller_process_values, dispatch,
                   dtVars>>

\* f_iterate after its loop: build the message, publish it and return (the
\* locals are gone; the next call starts from fresh ones)
Tick_publish ==
    /\ tick_pc = "loop"
    /\ idx = Len(m_behavior_containers)
    /\ published' =
          [array_to_control_process_msg(dof_ctrl)
              EXCEPT !.control_mode = active_state.mode]
    /\ tick_outcome' = "published"
    /\ tick_pc' = "sleep"
    /\ active_state' = DefaultState
    /\ dofs' = {}
    /\ idx' = 0
    /\ dof_ctrl' = ZeroArray
    /\ dof_priority' = ZeroArray
    /\ proposals' = <<>>
    /\ calls' = <<>>
    /\ UNCHANGED <<smVars, confVars, m_controller_process_values, dispatch,
                   dtVars>>

-----------------------------------------------------------------------------
(* helm::DepthTracking, depth_tracking.cpp *)

(* its doubles: numbers (integers here: metres, metres per second, and
   angles in units of a quarter of pi), the infinities and NaN, with the
   arithmetic and the comparisons of IEEE 754 *)

Num(n) == [fp |-> "num", v |-> n]
Inf(sign) == [fp |-> "inf", v |-> sign]
NaN == [fp |-> "nan", v |-> 0]

\* M_PI_2, in units of a quarter of pi
HalfPi == 2

Sign(n) == IF n < 0 THEN -1 ELSE 1

Abs(n) == IF n < 0 THEN -n ELSE n

\* -x
FNeg(x) == IF x.fp = "nan" THEN NaN ELSE [x EXCEPT !.v = -x.v]

\* x + y
FAdd(x, y) ==
    IF x.fp = "nan" \/ y.fp = "nan" THEN NaN
    ELSE IF x.fp = "inf" /\ y.fp = "inf"
         THEN IF x.v = y.v THEN x ELSE NaN
    ELSE IF x.fp = "inf" THEN x
    ELSE IF y.fp = "inf" THEN y
    ELSE Num(x.v + y.v)

\* x - y
FSub(x, y) == FAdd(x, FNeg(y))

\* x / y, a quotient of numbers rounded towards zero
FDiv(x, y) ==
    IF x.fp = "nan" \/ y.fp = "nan" THEN NaN
    ELSE IF x.fp = "inf"
         THEN IF y.fp = "inf" THEN NaN ELSE Inf(x.v * Sign(y.v))
    ELSE IF y.fp = "inf" THEN Num(0)
    ELSE IF y.v = 0
         THEN IF x.v = 0 THEN NaN ELSE Inf(Sign(x.v))
    ELSE Num(Sign(x.v) * Sign(y.v) * (Abs(x.v) \div Abs(y.v)))

\* x > y: false when either is NaN
FGt(x, y) ==
    IF x.fp = "nan" \/ y.fp = "nan" THEN FALSE
    ELSE IF x.fp = "inf" THEN x.v = 1 /\ y # x
    ELSE IF y.fp = "inf" THEN y.v = -1
    ELSE x.v > y.v

\* x >= y: false when either is NaN
FGe(x, y) ==
    IF x.fp = "nan" \/ y.fp = "nan" THEN FALSE ELSE ~FGt(y, x)

\* x != 0: true of NaN
FNonZero(x) == ~(x.fp = "num" /\ x.v = 0)

\* fabs(x)
Fabs(x) == IF x.fp = "nan" THEN NaN ELSE [x EXCEPT !.v = Abs(x.v)]

\* atan(x), to the nearest quarter of pi: atan(1) is one, the limit is HalfPi
Atan(x) ==
    IF x.fp = "nan" THEN NaN
    ELSE IF x.fp = "inf" THEN Num(x.v * HalfPi)
    ELSE IF x.v = 0 THEN Num(0)
    ELSE IF Abs(x.v) <= 2 THEN Num(Sign(x.v) * (HalfPi \div 2))
    ELSE Num(Sign(x.v) * HalfPi)

\* the fields of the feedback that DepthTracking reads
ProcessValues(z, vx, vz) ==
    [position_z |-> z, velocity_x |-> vx, velocity_z |-> vz]

\* DepthTracking after initialize() with the default parameters, before any
\* feedback and any desired_depth message
DepthTracking_initialize ==
    /\ m_process_values = ProcessValues(Num(0), Num(0), Num(0))
    /\ m_requested_depth = Num(0)
    /\ m_max_pitch = Num(HalfPi)
    /\ m_fwd_distance = Num(3)

\* DepthTracking::m_dofs
DepthTracking_m_dofs == {"PITCH", "Z"}

\* the local `pitch` of request_set_point before the limit is applied
DepthTracking_pitch(process_values, requested_depth, fwd_distance) ==
    LET error == FSub(process_values.position_z, requested_depth)
        pitch == Atan(FDiv(error, fwd_distance))
    IN  IF FNonZero(process_values.velocity_x)
        THEN FAdd(pitch, Atan(FDiv(process_values.velocity_z,
                                   process_values.velocity_x)))
        ELSE pitch

\* DepthTracking::request_set_point on the members `this` (m_process_values,
\* m_requested_depth, m_fwd_distance, m_max_pitch): what it returns, set_point
\* as it leaves it, the DOFs whose field it assigned, and its local `pitch`
DepthTracking_request_set_point(set_point, this) ==
    LET pitch == DepthTracking_pitch(this.m_process_values,
                                     this.m_requested_depth,
                                     this.m_fwd_distance)
    IN  [ok |-> TRUE,
         set_point |->
            [set_point EXCEPT !.orientation_y =
                IF FGt(Fabs(pitch), this.m_max_pitch)
                THEN IF FGe(pitch, Num(0))
                     THEN this.m_max_pitch ELSE FNeg(this.m_max_pitch)
                ELSE pitch],
         assigned |-> {"PITCH"},
         pitch |-> pitch]

-----------------------------------------------------------------------------
(* The StateMachine object under an arbitrary client *)

InitSM ==
    /\ pc = "sm_config"
    /\ m_states = <<>>
    /\ m_active_state = DefaultState
    /\ sm_call = NoCall
    /\ mission = [states |-> <<>>, behaviors |-> <<>>]
    /\ HelmConstructed
    /\ DepthTracking_initialize

SM_append_state ==
    /\ pc = "sm_config"
    /\ Len(m_states) < MaxStates
    /\ \E state \in StateChoices : m_states' = append_state(m_states, state)
    /\ UNCHANGED <<pc, m_active_state, sm_call>>
    /\ UNCHANGED helmVars

\* initialize(); on an empty list m_states.front() is undefined behaviour:
\* the process dies, or goes on with whatever the read produced
SM_initialize ==
    /\ pc = "sm_config"
    /\ \/ /\ m_states # <<>>
          /\ m_active_state' = initialize(m_states)
          /\ pc' = "sm_ready"
       \/ /\ m_states = <<>>
          /\ \/ /\ pc' = "crashed"
                /\ UNCHANGED m_active_state
             \/ /\ pc' = "sm_ready"
                /\ m_active_state' \in GarbageStates
    /\ UNCHANGED <<m_states, sm_call>>
    /\ UNCHANGED helmVars

SM_translate_to ==
    /\ pc = "sm_ready"
    /\ sm_call = NoCall
    /\ \E state_name \in StateNames :
          LET r == translate_to(m_states, m_active_state, state_name)
          IN  /\ m_active_state' = r.active
              /\ sm_call' = [op |-> "translate_to", arg |-> state_name,
                             ret |-> r.ret]
    /\ UNCHANGED <<pc, m_states>>
    /\ UNCHANGED helmVars

SM_get_state ==
    /\ pc = "sm_ready"
    /\ sm_call = NoCall
    /\ \E name \in StateNames :
          LET r == get_state(m_states, name)
          IN  sm_call' = [op |-> "get_state", arg |-> name, ret |-> r.ret,
                          out |-> r.out]
    /\ UNCHANGED <<pc, m_states, m_active_state>>
    /\ UNCHANGED helmVars

SM_get_active_state ==
    /\ pc = "sm_ready"
    /\ sm_call = NoCall
    /\ sm_call' = [op |-> "get_active_state", out |-> m_active_state]
    /\ UNCHANGED <<pc, m_states, m_active_state>>
    /\ UNCHANGED helmVars

\* the client takes the returned value
SM_return ==
    /\ sm_call # NoCall
    /\ sm_call' = NoCall
    /\ UNCHANGED <<pc, m_states, m_active_state>>
    /\ UNCHANGED helmVars

NextSM ==
    \/ SM_append_state
    \/ SM_initialize
    \/ SM_translate_to
    \/ SM_get_state
    \/ SM_get_active_state
    \/ SM_return

SpecSM == InitSM /\ [][NextSM]_vars

-----------------------------------------------------------------------------
(* The whole helm: Helm::initialize, Helm::run, the two threads *)

\* the states a mission of the whole helm declares: either name, either mode
HelmStateChoices ==
    {[name |-> n, mode |-> m, initial |-> (n = "A"),
      transitions |-> StateNames \ {n}] : n \in StateNames, m \in ModeNames}

\* its behaviors: one on PITCH in state A, one on both DOFs in both states
HelmBehaviors ==
    <<Container({"PITCH"}, [A |-> 1]),
      Container({"PITCH", "Z"}, [A |-> 2, B |-> 1])>>

Missions ==
    {[states |-> st, behaviors |-> HelmBehaviors] :
        st \in UNION {[1..n -> HelmStateChoices] : n \in 0..MaxStates}}

Init ==
    /\ pc = "parse"
    /\ m_states = <<>>
    /\ m_active_state = DefaultState
    /\ sm_call = NoCall
    /\ mission \in Missions
    /\ HelmConstructed
    /\ DepthTracking_initialize

Next ==
    \/ Helm_f_generate_sm_states
    \/ Helm_f_generate_behaviors
    \/ Helm_subscribe
    \/ Helm_sm_initialize
    \/ Helm_f_initialize_behaviors
    \/ Controller_up
    \/ Helm_wait_for_service
    \/ Helm_f_get_controller_modes
    \/ Helm_run
    \/ Helm_f_cb_controller_state
    \/ Helm_f_cb_controller_state_return
    \/ Helm_f_change_state
    \/ Helm_f_change_state_return
    \/ Tick_begin
    \/ Tick_behavior
    \/ Tick_publish

Spec == Init /\ [][Next]_vars

(* the whole helm on one mission, with the scheduling the code relies on:
   the helm_loop thread keeps running (while(ros::ok()) with a sleep), and a
   callback that has started returns *)

\* state A in a mode the controller knows, state B in one it does not
LiveMission ==
    [states |->
        <<[name |-> "A", mode |-> "flight", initial |-> TRUE,
           transitions |-> {"B"}],
          [name |-> "B", mode |-> "survey", initial |-> FALSE,
           transitions |-> {"A"}]>>,
     behaviors |-> HelmBehaviors]

InitLive == Init /\ mission = LiveMission

Fairness ==
    /\ WF_vars(Tick_begin)
    /\ WF_vars(Tick_behavior)
    /\ WF_vars(Tick_publish)
    /\ WF_vars(Helm_f_cb_controller_state_return)
    /\ WF_vars(Helm_f_change_state_return)

SpecLive == InitLive /\ [][Next]_vars /\ Fairness

-----------------------------------------------------------------------------
(* Helm::f_iterate on arbitrary behavior containers *)

\* the declared states: A and B, each leading to the other, both in "flight"
ArbStates ==
    <<[name |-> "A", mode |-> "flight", initial |-> TRUE,
       transitions |-> {"B"}],
      [name |-> "B", mode |-> "flight", initial |-> FALSE,
       transitions |-> {"A"}]>>

\* containers: any claimed DOFs; no key, or a key for A with any priority
ArbContainers ==
    {Container(d, st) :
        d \in SUBSET DOFs,
        st \in UNION {[S -> Priorities] : S \in {{}, {"A"}}}}

ArbContainerLists ==
    UNION {[1..n -> ArbContainers] : n \in 1..MaxBehaviors}

\* the helm in ros::spin() with feedback received, in either state
InitArb ==
    /\ pc = "spin"
    /\ m_states = ArbStates
    /\ m_active_state \in {ArbStates[k] : k \in DOMAIN ArbStates}
    /\ sm_call = NoCall
    /\ m_behavior_containers \in ArbContainerLists
    /\ mission = [states |-> ArbStates, behaviors |-> m_behavior_containers]
    /\ m_controller_modes = ControllerModes
    /\ m_controller_process_values = "f1"
    /\ controller_up = TRUE
    /\ tick_pc = "sleep"
    /\ tick_outcome = "none"
    /\ active_state = DefaultState
    /\ dofs = {}
    /\ idx = 0
    /\ dof_ctrl = ZeroArray
    /\ dof_priority = ZeroArray
    /\ proposals = <<>>
    /\ published = NoMsg
    /\ calls = <<>>
    /\ dispatch = Idle
    /\ DepthTracking_initialize

NextArb ==
    \/ Tick_begin
    \/ Tick_behavior
    \/ Tick_publish

SpecArb == InitArb /\ [][NextArb]_vars

-----------------------------------------------------------------------------
(* Helm::f_iterate on the DepthTracking behavior *)

\* depths and positions: some numbers, an infinity and NaN
DepthValues == {Num(n) : n \in {-6, 0, 6}} \cup {Inf(1), NaN}

\* velocities
VelocityValues == {Num(n) : n \in {-1, 0, 1}}

\* what a feedback message can hold in the fields DepthTracking reads
ProcessValueChoices ==
    {ProcessValues(z, vx, vz) :
        z \in DepthValues, vx \in VelocityValues, vz \in VelocityValues}

\* the parameters max_pitch and fwd_distance: the defaults, and another
MaxPitchChoices == {Num(HalfPi), Num(HalfPi \div 2)}
FwdDistanceChoices == {Num(3), Num(1)}

\* mvp_control::ControlProcess set_point, as f_iterate constructs it
FreshSetPoint == ControlProcess(Num(0), Num(0), "")

\* what is kept of DepthTracking's answer
DepthTracking_proposal(container, out) ==
    [ok |-> out.ok,
     array |-> [d \in DOFs |->
                  IF out.ok /\ d \in container.dofs
                  THEN control_process_to_array(out.set_point)[d] ELSE 0],
     assigned |-> out.assigned,
     pitch |-> out.pitch]

\* the helm in ros::spin() with feedback received, DepthTracking its one
\* behavior, keyed for state A
InitDT ==
    /\ pc = "spin"
    /\ m_states = ArbStates
    /\ m_active_state \in {ArbStates[k] : k \in DOMAIN ArbStates}
    /\ sm_call = NoCall
    /\ \E priority \in Priorities :
          m_behavior_containers =
             <<Container(DepthTracking_m_dofs, [A |-> priority])>>
    /\ mission = [states |-> ArbStates, behaviors |-> m_behavior_containers]
    /\ m_controller_modes = ControllerModes
    /\ m_controller_process_values = "f1"
    /\ controller_up = TRUE
    /\ tick_pc = "sleep"
    /\ tick_outcome = "none"
    /\ active_state = DefaultState
    /\ dofs = {}
    /\ idx = 0
    /\ dof_ctrl = ZeroArray
    /\ dof_priority = ZeroArray
    /\ proposals = <<>>
    /\ published = NoMsg
    /\ calls = <<>>
    /\ dispatch = Idle
    /\ m_process_values = ProcessValues(Num(0), Num(0), Num(0))
    /\ m_requested_depth \in DepthValues
    /\ m_max_pitch \in MaxPitchChoices
    /\ m_fwd_distance \in FwdDistanceChoices

\* DepthTracking::f_cb_sub: a desired_depth message
DepthTracking_f_cb_sub ==
    /\ pc = "spin"
    /\ \E data \in DepthValues : m_requested_depth' = data
    /\ UNCHANGED <<smVars, confVars, m_controller_process_values, tickVars,
                   dispatch, m_process_values, m_max_pitch, m_fwd_distance>>

\* one pass of f_iterate's loop over the container of DepthTracking:
\* register_process_values stores the feedback, request_set_point computes
Tick_depth_tracking ==
    /\ tick_pc = "loop"
    /\ idx < Len(m_behavior_containers)
    /\ \E process_values \in ProcessValueChoices :
          LET i == m_behavior_containers[idx + 1]
              out == DepthTracking_request_set_point(
                         FreshSetPoint,
                         [m_process_values |-> process_values,
                          m_requested_depth |-> m_requested_depth,
                          m_fwd_distance |-> m_fwd_distance,
                          m_max_pitch |-> m_max_pitch])
              a == Arbitrate(i, active_state.name, out,
                             [ctrl |-> dof_ctrl, priority |-> dof_priority])
          IN  /\ m_process_values' = process_values
              /\ dof_ctrl' = a.ctrl
              /\ dof_priority' = a.priority
              /\ proposals' = Append(proposals, DepthTracking_proposal(i, out))
    /\ \E message \in ReadFeedback :
          calls' = calls \o BehaviorCalls(idx + 1, dofs, message)
    /\ idx' = idx + 1
    /\ UNCHANGED <<smVars, confVars, m_controller_process_values, tick_pc,
                   tick_outcome, active_state, dofs, published, dispatch,
                   m_requested_depth, m_max_pitch, m_fwd_distance>>

NextDT ==
    \/ DepthTracking_f_cb_sub
    \/ Tick_begin
    \/ Tick_depth_tracking
    \/ Tick_publish

SpecDT == InitDT /\ [][NextDT]_vars

-----------------------------------------------------------------------------
(* Properties of the StateMachine, checked under SpecSM *)

Declared(name) == \E k \in DOMAIN m_states : m_states[k].name = name

\* a translate_to call returns in this step
TranslateToStep == sm_call = NoCall /\ sm_call'.op = "translate_to"

\* C1: translate_to(name) returns true exactly when name is in the
\* transitions of the state that is active at the call and a state called
\* name is declared; on true the active state becomes the (first) declared
\* state of that name, against which the next call is judged.
C1_TranslateToLegality ==
    [][TranslateToStep =>
         LET name == sm_call'.arg
         IN  /\ sm_call'.ret <=>
                  (name \in m_active_state.transitions /\ Declared(name))
             /\ sm_call'.ret =>
                  \E k \in DOMAIN m_states :
                     /\ m_states[k].name = name
                     /\ \A j \in 1..(k - 1) : m_states[j].name # name
                     /\ m_active_state' = m_states[k]]_vars

\* C1 witness: from B, reached by a successful translate_to, translate_to("B")
\* has failed although B is declared (B does not list itself).
C1_Witness ==
    /\ sm_call = [op |-> "translate_to", arg |-> "B", ret |-> FALSE]
    /\ m_active_state.name = "B"
    /\ Len(m_states) = 2
    /\ m_states[1] = [name |-> "A", mode |-> "flight", initial |-> TRUE,
                      transitions |-> {"B"}]
    /\ m_states[2] = [name |-> "B", mode |-> "survey", initial |-> FALSE,
                      transitions |-> {"A"}]

\* C2: a translate_to that returns false leaves the active state and the
\* declared states as they were.
C2_FailedTranslateKeepsState ==
    [][(TranslateToStep /\ ~sm_call'.ret) =>
         (m_active_state' = m_active_state /\ m_states' = m_states)]_vars

\* C2 witness: a refused request for a declared state that the active state
\* does not list.
C2_Witness ==
    /\ sm_call.op = "translate_to"
    /\ ~sm_call.ret
    /\ Declared(sm_call.arg)
    /\ sm_call.arg \notin m_active_state.transitions
    /\ m_active_state.name # sm_call.arg

\* C3: once initialize() has run on a non-empty list, the active state
\* equals some declared state.
C3_ActiveIsDeclared ==
    (pc = "sm_ready" /\ m_states # <<>>) =>
        \E k \in DOMAIN m_states : m_active_state = m_states[k]

\* C3 witness: the active state is the second declared state, after a
\* successful transition.
C3_Witness ==
    /\ pc = "sm_ready"
    /\ Len(m_states) = 2
    /\ m_active_state = m_states[2]
    /\ m_active_state # m_states[1]
    /\ sm_call.op = "translate_to"
    /\ sm_call.ret

\* initialize() returns in this step, on a non-empty list
InitializeStep == pc = "sm_config" /\ pc' = "sm_ready" /\ m_states # <<>>

\* C4: initialize() selects the first declared state marked initial, and the
\* first declared state when none is marked.
C4_InitializeSelection ==
    [][InitializeStep =>
         IF \E k \in DOMAIN m_states : m_states[k].initial
         THEN \E k \in DOMAIN m_states :
                 /\ m_states[k].initial
                 /\ \A j \in 1..(k - 1) : ~m_states[j].initial
                 /\ m_active_state' = m_states[k]
         ELSE m_active_state' = m_states[1]]_vars

\* C4 witness: no state is marked initial and the first of two different
\* declared states is active right after initialize().
C4_Witness ==
    /\ pc = "sm_ready"
    /\ sm_call = NoCall
    /\ Len(m_states) = 2
    /\ \A k \in DOMAIN m_states : ~m_states[k].initial
    /\ m_states[1] # m_states[2]
    /\ m_active_state = m_states[1]

-----------------------------------------------------------------------------
(* Properties of start up, checked under Spec *)

HasDuplicateNames(states) ==
    \E j, k \in DOMAIN states : j # k /\ states[j].name = states[k].name

\* C5: with an empty declared state list, initialize() is fatal: the helm
\* never starts its tick loop and f_iterate never runs.
C5_EmptyListNeverTicks ==
    mission.states = <<>> => (tick_pc = "off" /\ tick_outcome = "none")

\* C6: when the mission declares two states of the same name, start up ends
\* in a fatal error: the tick loop is never started and f_iterate never runs.
C6_DuplicateNamesNeverTick ==
    HasDuplicateNames(mission.states) =>
        (tick_pc = "off" /\ tick_outcome = "none")

-----------------------------------------------------------------------------
(* Properties of the tick among the two threads, checked under Spec *)

\* no feedback has been received, nor is one being assigned
NoFeedbackYet ==
    m_controller_process_values = Null /\ dispatch.op # "feedback"

\* the mode of the active state, whatever the tick reads of it, is not in the
\* table of the controller's modes
NoKnownMode ==
    \A state \in ReadActiveState :
        FindMode(m_controller_modes, state.mode) = 0

\* the helm_loop thread takes a step out of its sleep: f_iterate is called
TickStarts == tick_pc = "sleep" /\ tickVars' # tickVars

\* C11: a call of f_iterate made while no feedback has been received, or
\* while the active state's mode is not in the controller's table, publishes
\* nothing, calls no behavior, leaves the state machine as it is and ends
\* with the loop back in its sleep, the process alive.
C11_SkippedTickDoesNothing ==
    [][(TickStarts /\ (NoFeedbackYet \/ NoKnownMode)) =>
         /\ tick_outcome' \in {"no_feedback", "no_mode"}
         /\ published' = NoMsg
         /\ calls' = <<>> /\ proposals' = <<>> /\ idx' = 0
         /\ m_states' = m_states /\ m_active_state' = m_active_state
         /\ pc' = pc
         /\ tick_pc' = "sleep"]_vars

\* C11 witness: with feedback received, a call of f_iterate has returned at
\* the mode check because the active state's mode is unknown.
C11_Witness ==
    /\ tick_outcome = "no_mode"
    /\ tick_pc = "sleep"
    /\ published = NoMsg
    /\ m_controller_process_values \in Feedbacks
    /\ m_active_state.mode = "survey"
    /\ dispatch = Idle

\* C16: the tick loop runs only once start up is over and has obtained the
\* controller's table of modes, which stays as obtained; while the service
\* does not exist start up waits, with no table and no tick loop.
C16_TickingOnlyWithTable ==
    /\ tick_pc # "off" =>
          (pc = "spin" /\ m_controller_modes = ControllerModes)
    /\ (pc = "get_modes" /\ ~controller_up) =>
          (tick_pc = "off" /\ m_controller_modes = <<>>)

\* the tick loop runs, feedback has been received and the mode of the
\* active state is in the controller's table
Ready ==
    /\ tick_pc # "off"
    /\ m_controller_process_values # Null
    /\ FindMode(m_controller_modes, m_active_state.mode) # 0

\* C17: a call of f_iterate that has entered its loop ends by publishing,
\* and whenever the tick loop runs with feedback received and the active
\* state's mode known, a call of f_iterate enters its loop, unless these
\* conditions cease to hold; so commands keep being published while they
\* hold, whatever calls were skipped before.
C17_TicksCompleteAndGoOn ==
    /\ (tick_pc = "loop") ~> (tick_pc = "sleep" /\ tick_outcome = "published")
    /\ (Ready /\ tick_pc # "loop") ~> (tick_pc = "loop" \/ ~Ready)

\* C17 witness: a command has been published in the known mode, after a
\* second feedback message, and the conditions still hold.
C17_Witness ==
    /\ tick_outcome = "published"
    /\ tick_pc = "sleep"
    /\ published.control_mode = "flight"
    /\ Ready
    /\ m_controller_process_values = "f2"

\* the feedback f_iterate has passed to register_process_values, in order
Registered ==
    [c \in {n \in DOMAIN calls : calls[n].call = "register_process_values"}
        |-> calls[c].arg]

\* C12: the tick never observes a partially updated feedback nor an active
\* state in the middle of a transition: the state a call of f_iterate works
\* with is one of the declared states, whole, and every feedback it passes
\* to a behavior is a message that was received, whole.
C12_TickSeesWholeValues ==
    (tick_pc = "loop" /\ mission.states # <<>>) =>
        /\ \E k \in DOMAIN m_states : active_state = m_states[k]
        /\ \A c \in DOMAIN Registered : Registered[c] \in Feedbacks

\* C13: a call of f_iterate that passes both checks works to its end with
\* the state it read at its start: the passes of its loop leave that copy
\* alone and merge only behaviors keyed for its name, and the call ends by
\* publishing one command, in the mode of that copy, whatever translate_to
\* has done to the state machine since; nothing else publishes.
C13_OneCommandInTheModeRead ==
    [][/\ (TickStarts /\ tick_pc' = "loop") =>
              /\ active_state' \in ReadActiveState
              /\ FindMode(m_controller_modes, active_state'.mode) # 0
       /\ (tick_pc = "loop" /\ tick_pc' = "loop") =>
              /\ active_state' = active_state
              /\ published' = NoMsg
              /\ (dof_ctrl' # dof_ctrl \/ dof_priority' # dof_priority) =>
                     IsKeyed(m_behavior_containers[idx + 1], active_state.name)
       /\ (tick_pc = "loop" /\ tick_pc' # "loop") =>
              /\ tick_outcome' = "published"
              /\ published' # NoMsg
              /\ published'.control_mode = active_state.mode
       /\ (published' # published /\ published' # NoMsg) =>
              (tick_pc = "loop" /\ tick_pc' = "sleep")]_vars

\* C13 witness: f_iterate is about to publish in the mode of the state A it
\* read, after translate_to has made B, of another mode, the active state.
C13_Witness ==
    /\ tick_pc = "loop"
    /\ idx = Len(m_behavior_containers)
    /\ idx >= 1
    /\ active_state.name = "A" /\ active_state.mode = "flight"
    /\ m_active_state.name = "B" /\ m_active_state.mode = "survey"
    /\ dispatch = Idle

\* C18: within one call of f_iterate every behavior is given the same
\* feedback message (the one that was the latest when the call started),
\* also when a newer one is received during the call.
C18_OneSnapshotPerTick ==
    tick_pc = "loop" =>
        \A c, d \in DOMAIN Registered :
            (Registered[c] \in Feedbacks /\ Registered[d] \in Feedbacks)
                => Registered[c] = Registered[d]

-----------------------------------------------------------------------------
(* Properties of the arbitration, checked under SpecArb *)

\* f_iterate has gone through every container and is about to publish
LoopDone == tick_pc = "loop" /\ idx = Len(m_behavior_containers)

\* the value the message about to be published carries for a DOF
MergedValue(d) ==
    control_process_to_array(array_to_control_process_msg(dof_ctrl))[d]

\* container k's behavior returned a proposal in this call of f_iterate, is
\* keyed for the state the call runs in, and claims DOF d
Contributes(k, d) ==
    /\ proposals[k].ok
    /\ IsKeyed(m_behavior_containers[k], active_state.name)
    /\ d \in m_behavior_containers[k].dofs

PriorityOf(k) == PriorityIn(m_behavior_containers[k], active_state.name)

\* C7: of two behaviors that both return a proposal, are both keyed for the
\* active state and both claim a DOF (no third one does), the one with the
\* strictly higher priority gives the DOF its merged value, whichever is
\* declared first.
C7_StrictPriorityWins ==
    LoopDone =>
        \A d \in DOFs : \A i, j \in DOMAIN proposals :
            ( /\ i # j
              /\ Contributes(i, d) /\ Contributes(j, d)
              /\ PriorityOf(i) > PriorityOf(j)
              /\ \A k \in DOMAIN proposals \ {i, j} : ~Contributes(k, d) )
            => MergedValue(d) = proposals[i].array[d]

\* C8: when the behaviors (two or more) that return a proposal for a DOF in
\* the active state all have the same priority, the DOF's merged value is the
\* proposal of the first declared of them.
C8_FirstDeclaredWinsTies ==
    LoopDone =>
        \A d \in DOFs :
            LET E == {k \in DOMAIN proposals : Contributes(k, d)}
            IN  (Cardinality(E) >= 2
                    /\ \A i, j \in E : PriorityOf(i) = PriorityOf(j))
                => \E f \in E :
                      /\ \A k \in E : f <= k
                      /\ MergedValue(d) = proposals[f].array[d]

\* C9: two behaviors that are active in the current state, return a proposal
\* and claim disjoint (non-empty) DOF sets both have, for every DOF they
\* claim (and no third one does), the value they proposed in the merged
\* command, whatever their priorities.
C9_DisjointDofsIndependent ==
    LoopDone =>
        \A i, j \in DOMAIN proposals :
            ( /\ i # j
              /\ proposals[i].ok /\ proposals[j].ok
              /\ IsKeyed(m_behavior_containers[i], active_state.name)
              /\ IsKeyed(m_behavior_containers[j], active_state.name)
              /\ m_behavior_containers[i].dofs # {}
              /\ m_behavior_containers[j].dofs # {}
              /\ m_behavior_containers[i].dofs
                    \cap m_behavior_containers[j].dofs = {} )
            => \A d \in m_behavior_containers[i].dofs :
                  (\A k \in DOMAIN proposals \ {i, j} : ~Contributes(k, d))
                  => MergedValue(d) = proposals[i].array[d]

\* one pass of f_iterate's loop, over a container that has no key for the
\* state the call runs in
UnkeyedPass ==
    /\ tick_pc = "loop"
    /\ idx' = idx + 1
    /\ ~IsKeyed(m_behavior_containers[idx + 1], active_state.name)

\* C10: a behavior with no key for the active state's name changes no entry
\* of dof_ctrl or dof_priority, whatever its request_set_point returns.
C10_UnkeyedBehaviorChangesNothing ==
    [][UnkeyedPass =>
         (dof_ctrl' = dof_ctrl /\ dof_priority' = dof_priority)]_vars

\* C10 witness: a behavior keyed for A only has returned true with non-zero
\* values for the DOFs it claims while B is active, after a keyed behavior
\* or none, and the pass is over.
C10_Witness ==
    /\ tick_pc = "loop"
    /\ idx >= 1
    /\ active_state.name = "B"
    /\ DOMAIN m_behavior_containers[idx].states = {"A"}
    /\ m_behavior_containers[idx].states["A"] > 0
    /\ m_behavior_containers[idx].dofs = DOFs
    /\ proposals[idx].ok
    /\ \A d \in DOFs : proposals[idx].array[d] # 0

\* one pass of f_iterate's loop, in which request_set_point returns false
FailedPass ==
    /\ tick_pc = "loop"
    /\ idx' = idx + 1
    /\ ~proposals'[idx + 1].ok

\* the calls of request_set_point made on the behavior of container k
RequestsOf(k) ==
    {c \in DOMAIN calls :
        calls[c].bhv = k /\ calls[c].call = "request_set_point"}

\* C14: when request_set_point returns false, the pass changes no entry of
\* dof_ctrl or dof_priority and the loop goes on to the next container; at
\* the end of the loop every behavior, failed or not, has been asked once,
\* and the call of f_iterate ends by publishing.
C14_FailedProposalIsSkipped ==
    [][/\ FailedPass =>
              /\ dof_ctrl' = dof_ctrl /\ dof_priority' = dof_priority
              /\ tick_pc' = "loop"
              /\ Len(proposals') = Len(proposals) + 1
       /\ (tick_pc = "loop" /\ tick_pc' # "loop") =>
              /\ \A k \in DOMAIN m_behavior_containers :
                     Cardinality(RequestsOf(k)) = 1
              /\ tick_outcome' = "published"
              /\ published' # NoMsg]_vars

\* C14 witness: the first behavior, keyed for the active state with the
\* higher priority, returned false; the second returned a proposal, which
\* is the merged pitch; the loop is over.
C14_Witness ==
    /\ LoopDone
    /\ Len(proposals) = 2
    /\ ~proposals[1].ok
    /\ Contributes(2, "PITCH")
    /\ IsKeyed(m_behavior_containers[1], active_state.name)
    /\ "PITCH" \in m_behavior_containers[1].dofs
    /\ PriorityOf(1) > PriorityOf(2)
    /\ PriorityOf(2) > 0
    /\ proposals[2].array["PITCH"] # 0
    /\ MergedValue("PITCH") = proposals[2].array["PITCH"]

\* the calls made so far are those of the first n containers, one container
\* after the other in declaration order, three calls each in their order
CallsInOrder(n) ==
    /\ Len(calls) = 3 * n
    /\ \A k \in 1..n :
          /\ calls[3 * k - 2].bhv = k
          /\ calls[3 * k - 2].call = "set_active_dofs"
          /\ calls[3 * k - 2].arg = dofs
          /\ calls[3 * k - 1].bhv = k
          /\ calls[3 * k - 1].call = "register_process_values"
          /\ calls[3 * k].bhv = k
          /\ calls[3 * k].call = "request_set_point"

\* C15: a call of f_iterate that passes both checks goes through the
\* containers in declaration order, calling set_active_dofs, then
\* register_process_values, then request_set_point on each, keyed for the
\* active state or not, and leaves its loop only when it has done so for
\* every container: each behavior is asked exactly once.
C15_EveryBehaviorOnceInOrder ==
    [][/\ (TickStarts /\ tick_pc' = "loop") => (idx' = 0 /\ calls' = <<>>)
       /\ tick_pc = "loop" => CallsInOrder(idx)
       /\ (tick_pc = "loop" /\ tick_pc' # "loop") =>
              idx = Len(m_behavior_containers)]_vars

\* C15 witness: in state B, for which no behavior is keyed, the loop is over
\* and both behaviors have had their three calls.
C15_Witness ==
    /\ LoopDone
    /\ active_state.name = "B"
    /\ Len(m_behavior_containers) = 2
    /\ \A k \in DOMAIN m_behavior_containers :
          ~IsKeyed(m_behavior_containers[k], active_state.name)
    /\ Len(calls) = 6
    /\ calls[4].bhv = 2 /\ calls[6].call = "request_set_point"

-----------------------------------------------------------------------------
(* Properties of DepthTracking, checked under SpecDT *)

\* the pass over DepthTracking's container is over
DepthTrackingAsked == tick_pc = "loop" /\ idx = 1

\* C19: request_set_point of DepthTracking returns true, and the pitch it
\* writes is within [-max_pitch, +max_pitch]: max_pitch with the sign of the
\* computed pitch when that exceeds max_pitch in magnitude.
C19_PitchWithinLimit ==
    DepthTrackingAsked =>
        LET y == proposals[1].array["PITCH"]
            pitch == proposals[1].pitch
        IN  /\ proposals[1].ok
            /\ FGe(y, FNeg(m_max_pitch)) /\ FGe(m_max_pitch, y)
            /\ FGt(Fabs(pitch), m_max_pitch) =>
                   y = IF FGe(pitch, Num(0))
                       THEN m_max_pitch ELSE FNeg(m_max_pitch)

\* container k's proposal is the one merged for DOF d
Wins(k, d) ==
    /\ Contributes(k, d)
    /\ PriorityOf(k) > 0
    /\ dof_priority[d] = PriorityOf(k)

\* C20: every DOF that DepthTracking claims and wins has been given its
\* value by request_set_point in this call of f_iterate: for Z, the merged
\* value is not the one the fresh set_point was constructed with.
C20_ClaimedDofsAreAssigned ==
    LoopDone =>
        \A k \in DOMAIN proposals : \A d \in DOFs :
            Wins(k, d) => d \in proposals[k].assigned

=============================================================================
